---- MODULE Spec2Model ----
(***************************************************************************)
(* messagely: the User model (register, authenticate,                      *)
(* updateLoginTimestamp, get, messagesFrom, messagesTo), the /login and    *)
(* /register routes and the three /messages routes, over the users and     *)
(* messages tables.  A handler is split where it awaits a second database  *)
(* statement; hashing and signing are local computations and belong to the *)
(* step of the statement they precede or follow.                           *)
(***************************************************************************)
EXTENDS Integers, Sequences, FiniteSets, TLC

\* ---------------------------------------------------------------- bounds
MaxTime == 1
MaxMessages == 1
MaxConn == 2

\* ---------------------------------------------------------------- inputs
Usernames == {"alice", "bob"}
Passwords == {"pw1", "pw2"}
Bodies == {"hi"}
Conns == 1..MaxConn
MessageIds == 1..(MaxMessages + 1)

\* ------------------------------------------------------------ primitives
SECRET_KEY == "SECRET_KEY"
BCRYPT_WORK_FACTOR == "BCRYPT_WORK_FACTOR"

\* SQL NULL / a timestamp value, and a JS value that may be undefined.
Null == <<>>
Ts(t) == <<t>>
Undefined == <<>>
Defined(v) == <<v>>

\* bcrypt.hash(password, cost) and bcrypt.compare(password, hash).
bcrypt_hash(password, cost) ==
  [alg |-> "bcrypt", cost |-> cost, digest |-> password]
bcrypt_compare(password, hash) ==
  hash.alg = "bcrypt" /\ hash.digest = password

\* jwt.sign(payload, key) and jwt.verify(token, key).
jwt_sign(payload, key) == [payload |-> payload, sig |-> <<payload, key>>]
jwt_verify(token, key) ==
  IF token.sig = <<token.payload, key>> THEN Defined(token.payload) ELSE Undefined

\* new ExpressError(message, status)
ExpressError(message, status) ==
  [name |-> "ExpressError", message |-> message, status |-> status]
\* errors raised by the database driver and by the JS runtime carry no status
UniqueViolation == [name |-> "error", code |-> "23505"]
ForeignKeyViolation == [name |-> "error", code |-> "23503"]
ReferenceError(ident) == [name |-> "ReferenceError", message |-> ident]

\* ------------------------------------------------------------ User model
\* The rows "SELECT ... FROM users WHERE username = $1" returns, and rows[0].
UserRows(tbl, username) == { r \in tbl : r.username = username }
FirstRow(rows) == CHOOSE r \in rows : TRUE

\* The users table's primary key (username): an INSERT of a present key fails.
UsersPrimaryKeyFree(tbl, username) == UserRows(tbl, username) = {}

\* register as an upsert: INSERT ... ON CONFLICT (username) DO UPDATE.
register_Upsert(tbl, body, t) ==
  LET row == [username |-> body.username,
              password |-> bcrypt_hash(body.password, BCRYPT_WORK_FACTOR),
              first_name |-> body.first_name, last_name |-> body.last_name,
              phone |-> body.phone, join_at |-> Ts(t), last_login_at |-> Null]
  IN [ok |-> TRUE, ret |-> [username |-> body.username],
      users |-> (tbl \ UserRows(tbl, body.username)) \cup {row}]

\* User.register({username, password, first_name, last_name, phone})
register(tbl, body, t) ==
  LET hashedPassword == bcrypt_hash(body.password, BCRYPT_WORK_FACTOR)
      row == [username |-> body.username, password |-> hashedPassword,
              first_name |-> body.first_name, last_name |-> body.last_name,
              phone |-> body.phone, join_at |-> Ts(t), last_login_at |-> Null]
  IN IF UsersPrimaryKeyFree(tbl, body.username)
       THEN [ok |-> TRUE, ret |-> [username |-> body.username],
             users |-> tbl \cup {row}]
       ELSE [ok |-> FALSE, err |-> UniqueViolation, users |-> tbl]

\* authenticate telling an unknown username from a wrong password.
authenticate_NotFound(tbl, username, password) ==
  LET rows == UserRows(tbl, username)
  IN IF rows = {}
       THEN [ok |-> FALSE,
             err |-> ExpressError(<<"There is no user with username: ", username>>, 404)]
       ELSE IF bcrypt_compare(password, FirstRow(rows).password)
         THEN [ok |-> TRUE, ret |-> TRUE]
         ELSE [ok |-> FALSE, err |-> ExpressError(<<"Invalid username/password">>, 400)]

\* User.authenticate(username, password)
authenticate(tbl, username, password) ==
  LET rows == UserRows(tbl, username)
  IN IF rows # {} /\ bcrypt_compare(password, FirstRow(rows).password)
       THEN [ok |-> TRUE, ret |-> TRUE]
       ELSE [ok |-> FALSE, err |-> ExpressError(<<"Invalid username/password">>, 400)]

\* updateLoginTimestamp with the WHERE clause lost: every row is stamped.
updateLoginTimestamp_NoWhere(tbl, username, t) ==
  IF UserRows(tbl, username) # {}
    THEN [ok |-> TRUE, users |-> { [r EXCEPT !.last_login_at = Ts(t)] : r \in tbl }]
    ELSE [ok |-> FALSE, users |-> tbl,
          err |-> ExpressError(<<"There is no user with username: ", username>>, 404)]

\* User.updateLoginTimestamp(username)
updateLoginTimestamp(tbl, username, t) ==
  IF UserRows(tbl, username) # {}
    THEN [ok |-> TRUE,
          users |-> { IF r.username = username
                        THEN [r EXCEPT !.last_login_at = Ts(t)] ELSE r : r \in tbl }]
    ELSE [ok |-> FALSE, users |-> tbl,
          err |-> ExpressError(<<"There is no user with username: ", username>>, 404)]

\* User.get(username)
get(tbl, username) ==
  LET rows == UserRows(tbl, username)
  IN IF rows # {}
       THEN [ok |-> TRUE,
             ret |-> [username |-> FirstRow(rows).username,
                      first_name |-> FirstRow(rows).first_name,
                      last_name |-> FirstRow(rows).last_name,
                      phone |-> FirstRow(rows).phone,
                      join_at |-> FirstRow(rows).join_at,
                      last_login_at |-> FirstRow(rows).last_login_at]]
       ELSE [ok |-> FALSE,
             err |-> ExpressError(<<"There is no user with username ", username>>, 404)]

\* The rows of "messages AS m JOIN users AS u ON m.<col> = u.username
\* WHERE m.<col> = $1": each a message id with the joined user row.
JoinOn(tbl, msgs, col, username) ==
  { [id |-> i, u |-> r] : i \in { j \in DOMAIN msgs : msgs[j][col] = username },
                          r \in UserRows(tbl, username) }

\* A property of a JS object: undefined when the object has none of that name.
Prop(m, name) == IF name \in DOMAIN m THEN Defined(m[name]) ELSE Undefined

\* User.messagesFrom(username): every result the call can give (result.rows[0]
\* of a query with no ORDER BY is any of the matching rows).
messagesFrom(tbl, msgs, username) ==
  LET rows == JoinOn(tbl, msgs, "from_username", username)
      m(row) == [id |-> row.id, from_username |-> msgs[row.id].from_username,
                 from_first_name |-> row.u.first_name,
                 from_last_name |-> row.u.last_name,
                 from_phone |-> row.u.phone,
                 body |-> msgs[row.id].body, sent_at |-> msgs[row.id].sent_at,
                 read_at |-> msgs[row.id].read_at]
  IN IF rows = {}
       THEN { [ok |-> FALSE,
               err |-> ExpressError(<<"There are no messages from ", username>>, 404)] }
       ELSE { [ok |-> TRUE,
               ret |-> [id |-> m(row).id,
                        from_user |-> [username |-> Prop(m(row), "from_username"),
                                       first_name |-> Prop(m(row), "from_first_name"),
                                       last_name |-> Prop(m(row), "from_last_name"),
                                       phone |-> Prop(m(row), "from_phone")],
                        body |-> m(row).body,
                        sent_at |-> m(row).sent_at,
                        read_at |-> m(row).read_at]] : row \in rows }

\* User.messagesTo(username)
messagesTo(tbl, msgs, username) ==
  LET rows == JoinOn(tbl, msgs, "to_username", username)
      m(row) == [id |-> row.id, to_username |-> msgs[row.id].to_username,
                 to_first_name |-> row.u.first_name,
                 to_last_name |-> row.u.last_name,
                 to_phone |-> row.u.phone,
                 body |-> msgs[row.id].body, sent_at |-> msgs[row.id].sent_at,
                 read_at |-> msgs[row.id].read_at]
  IN IF rows = {}
       THEN { [ok |-> FALSE,
               err |-> ExpressError(<<"There are no messages to user with username: ", username>>, 404)] }
       ELSE { [ok |-> TRUE,
               ret |-> [id |-> m(row).id,
                        to_user |-> [username |-> Prop(m(row), "to_username"),
                                     first_name |-> Prop(m(row), "to_first_name"),
                                     last_name |-> Prop(m(row), "to_last_name"),
                                     phone |-> Prop(m(row), "phone")],
                        body |-> m(row).body,
                        sent_at |-> m(row).sent_at,
                        read_at |-> m(row).read_at]] : row \in rows }

\* --------------------------------------- Message model and auth middleware
\* Message.create(from_username, to_username, body)
Message_create(tbl, msgs, from_username, to_username, body, t) ==
  IF UserRows(tbl, from_username) # {} /\ UserRows(tbl, to_username) # {}
    THEN [ok |-> TRUE,
          ret |-> [id |-> Len(msgs) + 1, from_username |-> from_username,
                   to_username |-> to_username, body |-> body, sent_at |-> Ts(t)],
          messages |-> Append(msgs, [from_username |-> from_username,
                                     to_username |-> to_username, body |-> body,
                                     sent_at |-> Ts(t), read_at |-> Null])]
    ELSE [ok |-> FALSE, err |-> ForeignKeyViolation, messages |-> msgs]

UserProfile(tbl, username) ==
  LET u == FirstRow(UserRows(tbl, username))
  IN [username |-> u.username, first_name |-> u.first_name,
      last_name |-> u.last_name, phone |-> u.phone]

\* Message.get(id)
Message_get(tbl, msgs, id) ==
  IF id \in DOMAIN msgs
    THEN [ok |-> TRUE,
          ret |-> [id |-> id,
                   from_user |-> UserProfile(tbl, msgs[id].from_username),
                   to_user |-> UserProfile(tbl, msgs[id].to_username),
                   body |-> msgs[id].body, sent_at |-> msgs[id].sent_at,
                   read_at |-> msgs[id].read_at]]
    ELSE [ok |-> FALSE, err |-> ExpressError(<<"No such message: ", id>>, 404)]

\* authenticateJWT: req.user = the payload of a token that verifies
authenticateJWT(token) ==
  IF token = Undefined THEN Undefined ELSE jwt_verify(token[1], SECRET_KEY)

\* ensureLoggedIn: passes when req.user is set
ensureLoggedIn(user) ==
  IF user = Undefined
    THEN [ok |-> FALSE, err |-> ExpressError(<<"Unauthorized">>, 401)]
    ELSE [ok |-> TRUE]

VARIABLES
  users,     \* the users table: a set of rows
  messages,  \* the messages table: a sequence of rows, id = position
  now,       \* the database server's clock (current_timestamp)
  tokens,    \* the tokens the service has handed out in responses
  conns,     \* per connection: the handler suspended at an await, if any
  last       \* the request that finished most recently, with how it ended;
             \* nth is the parity of the number of requests finished

vars == <<users, messages, now, tokens, conns, last>>

NoBody == [none |-> TRUE]
NoRes == [none |-> TRUE]
NoErr == [none |-> TRUE]
NoLocals == [none |-> TRUE]
IdleConn ==
  [pc |-> "idle", kind |-> "none", body |-> NoBody, user |-> Undefined,
   locals |-> NoLocals, out |-> "none", res |-> NoRes, err |-> NoErr, nth |-> 0]

\* A new request: the handler starts running.
Arrive(kind, body, user) ==
  [pc |-> "running", kind |-> kind, body |-> body, user |-> user,
   locals |-> NoLocals, out |-> "none", res |-> NoRes, err |-> NoErr, nth |-> 0]
\* The handler calls res.json(res) / next(err) and returns.
Json(req, res) == [req EXCEPT !.pc = "done", !.out = "json", !.res = res]
NextErr(req, err) == [req EXCEPT !.pc = "done", !.out = "error", !.err = err]
\* The handler returns having called neither res.json nor next.
Return(req) == [req EXCEPT !.pc = "done"]
\* The handler suspends at "await User.updateLoginTimestamp(username)".
AwaitUpdate(req, token, username) ==
  [req EXCEPT !.pc = "await_update",
              !.locals = [token |-> token, username |-> username]]
Free(c) == conns[c].pc = "idle"

\* Connection c's handler is now in state req: still suspended, or finished.
Step(c, req) ==
  IF req.pc = "done"
    THEN /\ last' = [req EXCEPT !.nth = 1 - last.nth]
         /\ conns' = [conns EXCEPT ![c] = IdleConn]
    ELSE /\ conns' = [conns EXCEPT ![c] = req]
         /\ UNCHANGED last

Init ==
  /\ users = {}
  /\ messages = <<>>
  /\ now = 0
  /\ tokens = {}
  /\ conns = [c \in Conns |-> IdleConn]
  /\ last = IdleConn

\* The clock advances on its own.
Tick ==
  /\ now < MaxTime
  /\ now' = now + 1
  /\ UNCHANGED <<users, messages, tokens, conns, last>>

\* ------------------------------------------------------------ requests
LoginBodies == [username : Usernames, password : Passwords]
RegisterBodies ==
  { [username |-> "alice", password |-> "pw1", first_name |-> "Ann",
     last_name |-> "Lee", phone |-> "111"],
    [username |-> "alice", password |-> "pw2", first_name |-> "Al",
     last_name |-> "Lee", phone |-> "333"],
    [username |-> "bob", password |-> "pw2", first_name |-> "Bo",
     last_name |-> "Ray", phone |-> "222"] }
\* What a client can present as its token: nothing, a token the service
\* issued, or one signed with a key that is not the service's.
ForgedTokens == { jwt_sign([username |-> u], "guess") : u \in Usernames }
PresentedTokens == {Undefined} \cup { Defined(t) : t \in tokens \cup ForgedTokens }

\* POST /login up to its second await: authenticate, sign.
PostLogin(c) ==
  /\ Free(c)
  /\ \E body \in LoginBodies :
       LET req == Arrive("login", body, Undefined)
           login == authenticate(users, body.username, body.password)
       IN Step(c,
            IF ~login.ok THEN NextErr(req, login.err)
            ELSE IF login.ret
              THEN AwaitUpdate(req, jwt_sign([username |-> body.username], SECRET_KEY),
                               body.username)
              ELSE Return(req))
  /\ UNCHANGED <<users, messages, now, tokens>>

\* POST /register up to its second await: register, sign.  The handler
\* declares req, res, next and result; it signs {username}.
PostRegister(c) ==
  /\ Free(c)
  /\ \E body \in RegisterBodies :
       LET req == Arrive("register", body, Undefined)
           result == register(users, body, now)
           scope == [req |-> [body |-> body], result |-> result]
       IN /\ users' = result.users
          /\ Step(c,
               IF ~result.ok THEN NextErr(req, result.err)
               ELSE IF "username" \in DOMAIN scope
                 THEN AwaitUpdate(req, jwt_sign([username |-> scope["username"]], SECRET_KEY),
                                  result.ret.username)
                 ELSE NextErr(req, ReferenceError("username")))
  /\ UNCHANGED <<messages, now, tokens>>

\* The rest of /login answering without the update of last_login_at.
ResumeUpdate_NoUpdate(c) ==
  /\ conns[c].pc = "await_update"
  /\ Step(c, Json(conns[c], [token |-> conns[c].locals.token]))
  /\ tokens' = tokens \cup {conns[c].locals.token}
  /\ UNCHANGED <<users, messages, now>>

\* The rest of /login and /register: updateLoginTimestamp, res.json({token}).
ResumeUpdate(c) ==
  /\ conns[c].pc = "await_update"
  /\ LET upd == updateLoginTimestamp(users, conns[c].locals.username, now)
         token == conns[c].locals.token
     IN /\ users' = upd.users
        /\ IF upd.ok
             THEN /\ Step(c, Json(conns[c], [token |-> token]))
                  /\ tokens' = tokens \cup {token}
             ELSE /\ Step(c, NextErr(conns[c], upd.err))
                  /\ UNCHANGED tokens
  /\ UNCHANGED <<messages, now>>

\* GET /messages/:id
GetMessage(c) ==
  /\ Free(c)
  /\ \E token \in PresentedTokens, id \in MessageIds :
       LET user == authenticateJWT(token)
           req == Arrive("getMessage", [id |-> id], user)
           message == Message_get(users, messages, id)
       IN Step(c,
            IF ~ensureLoggedIn(user).ok THEN NextErr(req, ensureLoggedIn(user).err)
            ELSE IF ~message.ok THEN NextErr(req, message.err)
            ELSE Json(req, [message |-> message.ret]))
  /\ UNCHANGED <<users, messages, now, tokens>>

\* POST /messages
PostMessage(c) ==
  /\ Free(c)
  /\ Len(messages) < MaxMessages
  /\ \E token \in PresentedTokens, to_username \in Usernames, body \in Bodies :
       LET user == authenticateJWT(token)
           req == Arrive("postMessage", [to_username |-> to_username, body |-> body], user)
       IN IF ~ensureLoggedIn(user).ok
            THEN /\ Step(c, NextErr(req, ensureLoggedIn(user).err))
                 /\ UNCHANGED messages
            ELSE LET message == Message_create(users, messages, user[1].username,
                                               to_username, body, now)
                 IN /\ messages' = message.messages
                    /\ Step(c,
                         IF message.ok THEN Json(req, [message |-> message.ret])
                         ELSE NextErr(req, message.err))
  /\ UNCHANGED <<users, now, tokens>>

\* POST /messages/:id/read marking the message for any logged-in caller.
PostMessageRead_AnyCaller(c) ==
  /\ Free(c)
  /\ \E token \in PresentedTokens, id \in MessageIds :
       LET user == authenticateJWT(token)
           req == Arrive("markRead", [id |-> id], user)
       IN IF ensureLoggedIn(user).ok /\ id \in DOMAIN messages
            THEN /\ messages' = [messages EXCEPT ![id].read_at = Ts(now)]
                 /\ Step(c, Json(req, [message |-> [id |-> id, read_at |-> Ts(now)]]))
            ELSE /\ Step(c, NextErr(req, ExpressError(<<"Unauthorized">>, 401)))
                 /\ UNCHANGED messages
  /\ UNCHANGED <<users, now, tokens>>

\* POST /messages/:id/read: the try block is empty.
PostMessageRead(c) ==
  /\ Free(c)
  /\ \E token \in PresentedTokens, id \in MessageIds :
       LET user == authenticateJWT(token)
           req == Arrive("markRead", [id |-> id], user)
       IN Step(c,
            IF ~ensureLoggedIn(user).ok THEN NextErr(req, ensureLoggedIn(user).err)
            ELSE Return(req))
  /\ UNCHANGED <<users, messages, now, tokens>>

\* Calls of the User model that are not made by the routes above.
CallGet(c) ==
  /\ Free(c)
  /\ \E username \in Usernames :
       LET req == Arrive("User.get", [username |-> username], Undefined)
           r == get(users, username)
       IN Step(c,
            IF r.ok THEN Json(req, r.ret) ELSE NextErr(req, r.err))
  /\ UNCHANGED <<users, messages, now, tokens>>

CallUpdateLoginTimestamp(c) ==
  /\ Free(c)
  /\ \E username \in Usernames :
       LET req == Arrive("User.updateLoginTimestamp", [username |-> username], Undefined)
           r == updateLoginTimestamp(users, username, now)
       IN /\ users' = r.users
          /\ Step(c,
               IF r.ok THEN Return(req) ELSE NextErr(req, r.err))
  /\ UNCHANGED <<messages, now, tokens>>

CallMessagesFrom(c) ==
  /\ Free(c)
  /\ \E username \in Usernames :
       \E r \in messagesFrom(users, messages, username) :
         LET req == Arrive("User.messagesFrom", [username |-> username], Undefined)
         IN Step(c,
              IF r.ok THEN Json(req, r.ret) ELSE NextErr(req, r.err))
  /\ UNCHANGED <<users, messages, now, tokens>>

CallMessagesTo(c) ==
  /\ Free(c)
  /\ \E username \in Usernames :
       \E r \in messagesTo(users, messages, username) :
         LET req == Arrive("User.messagesTo", [username |-> username], Undefined)
         IN Step(c,
              IF r.ok THEN Json(req, r.ret) ELSE NextErr(req, r.err))
  /\ UNCHANGED <<users, messages, now, tokens>>

\* The auth routes and the User directory, with the clock running.
Next ==
  \/ Tick
  \/ \E c \in Conns :
       \/ PostLogin(c)
       \/ PostRegister(c)
       \/ ResumeUpdate(c)
       \/ CallGet(c)
       \/ CallUpdateLoginTimestamp(c)

Spec == Init /\ [][Next]_vars

\* The message routes and queries, reached through /register and /login.
\* No message operation reads the clock's value other than to store it, and
\* the clock is held here.
NextMsg ==
  \E c \in Conns :
    \/ PostLogin(c)
    \/ PostRegister(c)
    \/ ResumeUpdate(c)
    \/ GetMessage(c)
    \/ PostMessage(c)
    \/ PostMessageRead(c)
    \/ CallMessagesFrom(c)
    \/ CallMessagesTo(c)

SpecMsg == Init /\ [][NextMsg]_vars

\* The auth routes alone; a handler suspended at an await resumes, the
\* statement it waits for completing.
NextAuth ==
  \/ Tick
  \/ \E c \in Conns :
       \/ PostLogin(c)
       \/ PostRegister(c)
       \/ ResumeUpdate(c)

FairSpec ==
  Init /\ [][NextAuth]_vars /\ \A c \in Conns : WF_vars(ResumeUpdate(c))

\* ------------------------------------------------------------ properties
\* In a step: a request finished, and last' is its record.
Finished == last'.nth # last.nth
\* The stored row of username.
UserRow(tbl, username) == FirstRow(UserRows(tbl, username))
\* username is registered with this password.
Matches(tbl, body) ==
  \E r \in tbl : /\ r.username = body.username
                 /\ r.password = bcrypt_hash(body.password, BCRYPT_WORK_FACTOR)
\* In a step: updateLoginTimestamp(username) was called, directly or by a route.
UpdateCalled(username) ==
  \/ /\ Finished
     /\ last'.kind = "User.updateLoginTimestamp"
     /\ last'.body.username = username
  \/ \E c \in Conns : /\ conns[c].pc = "await_update"
                      /\ conns'[c].pc = "idle"
                      /\ conns[c].locals.username = username
\* A profile as a result object whose properties are all defined.
DefinedProfile(tbl, username) ==
  [username |-> Defined(username),
   first_name |-> Defined(UserRow(tbl, username).first_name),
   last_name |-> Defined(UserRow(tbl, username).last_name),
   phone |-> Defined(UserRow(tbl, username).phone)]

\* C1: a /register request whose username was free (it did not end in the
\* uniqueness error) ends with the response {token}, the token carrying the
\* new username, and the user exists with last_login_at set.
C1_RegisterReturnsToken ==
  (last.kind = "register" /\ ~(last.out = "error" /\ last.err = UniqueViolation))
    => /\ last.out = "json"
       /\ jwt_verify(last.res.token, SECRET_KEY) = Defined([username |-> last.body.username])
       /\ UserRows(users, last.body.username) # {}
       /\ UserRow(users, last.body.username).last_login_at # Null

\* C2: the first register of a username inserts its row, which get(username)
\* then returns; a later register of the same username fails with the
\* uniqueness error and leaves the table as it was; no two rows ever share a
\* username.
C2_RegisterStep ==
  (Finished /\ last'.kind = "register") =>
    LET b == last'.body
    IN IF UserRows(users, b.username) = {}
         THEN /\ ~(last'.out = "error" /\ last'.err = UniqueViolation)
              /\ users' = users \cup
                   { [username |-> b.username,
                      password |-> bcrypt_hash(b.password, BCRYPT_WORK_FACTOR),
                      first_name |-> b.first_name, last_name |-> b.last_name,
                      phone |-> b.phone, join_at |-> Ts(now), last_login_at |-> Null] }
              /\ get(users', b.username).ok
              /\ get(users', b.username).ret =
                   [username |-> b.username, first_name |-> b.first_name,
                    last_name |-> b.last_name, phone |-> b.phone,
                    join_at |-> Ts(now), last_login_at |-> Null]
         ELSE /\ last'.out = "error"
              /\ last'.err = UniqueViolation
              /\ users' = users
C2_OneRowPerUsername ==
  \A r1, r2 \in users : r1.username = r2.username => r1 = r2
C2_RegisterOnce == [][C2_RegisterStep]_vars /\ []C2_OneRowPerUsername
\* C2 witness: a register of a taken username has failed and the row of the
\* first registration, which differs from the request, is still there.
C2_Witness ==
  /\ last.kind = "register"
  /\ last.out = "error"
  /\ last.err = UniqueViolation
  /\ \E r \in users : /\ r.username = last.body.username
                      /\ r.first_name # last.body.first_name
                      /\ r.password # bcrypt_hash(last.body.password, BCRYPT_WORK_FACTOR)

\* C3: authenticate returns true exactly when the username is registered with
\* the given password; otherwise, whether the username is unknown or the
\* password wrong, it throws the one error "Invalid username/password", 400;
\* it never returns false (the /login handler never returns unanswered).
C3_AuthenticateStep ==
  /\ \A c \in Conns :
       (conns[c].pc = "idle" /\ conns'[c].pc = "await_update" /\ conns'[c].kind = "login")
         => Matches(users, conns'[c].body)
  /\ (Finished /\ last'.kind = "login" /\ conns' = conns)
       => /\ ~Matches(users, last'.body)
          /\ last'.out = "error"
          /\ last'.err = ExpressError(<<"Invalid username/password">>, 400)
C4_LoginStep ==
  /\ \A c \in Conns :
       (conns[c].pc = "await_update" /\ conns[c].kind = "login" /\ conns'[c].pc = "idle")
         => /\ Finished
            /\ last'.kind = "login"
            /\ last'.body = conns[c].body
            /\ Matches(users, last'.body)
            /\ last'.out = "json"
            /\ jwt_verify(last'.res.token, SECRET_KEY)
                 = Defined([username |-> last'.body.username])
            /\ UserRow(users', last'.body.username).last_login_at = Ts(now)
  /\ (Finished /\ last'.kind = "login" /\ last'.out # "json")
       => /\ ~Matches(users, last'.body)
          /\ last'.out = "error"
          /\ last'.err.status = 400
          /\ conns' = conns
          /\ users' = users
          /\ tokens' = tokens
C4_Login ==
  /\ [][C4_LoginStep]_vars
  /\ \A c \in Conns : (conns[c].pc = "await_update") ~> (conns[c].pc = "idle")
\* C4 witness: a login has been answered with a token and the user is stamped.
C4_Witness ==
  /\ last.kind = "login"
  /\ last.out = "json"
  /\ last.res.token \in tokens
  /\ UserRow(users, last.body.username).last_login_at # Null

\* C5: GET /messages/:id answers with the message only when the caller is the
\* message's sender or recipient.
C5_OnlyParticipantsRead ==
  (last.kind = "getMessage" /\ last.out = "json")
    => /\ last.user # Undefined
       /\ last.user[1].username \in { last.res.message.from_user.username,
                                      last.res.message.to_user.username }

\* C6: a POST /messages/:id/read made by the recipient of an existing message
\* is answered {message: {id, read_at}} and leaves the message's read_at set.
C6_RecipientReadIsAnswered ==
  (/\ last.kind = "markRead"
   /\ last.body.id \in DOMAIN messages
   /\ last.user = Defined([username |-> messages[last.body.id].to_username]))
    => /\ last.out = "json"
       /\ messages[last.body.id].read_at # Null
       /\ last.res = [message |-> [id |-> last.body.id,
                                   read_at |-> messages[last.body.id].read_at]]

\* C7: a message is created with read_at null; read_at changes only from null
\* to a timestamp, and only in a step of a request made by the message's
\* to_username.
C7_ReadAtStep ==
  /\ \A id \in DOMAIN messages' :
       id \notin DOMAIN messages => messages'[id].read_at = Null
  /\ \A id \in DOMAIN messages :
       /\ id \in DOMAIN messages'
       /\ messages'[id].read_at # messages[id].read_at
            => /\ messages[id].read_at = Null
               /\ messages'[id].read_at # Null
               /\ Finished
               /\ last'.user = Defined([username |-> messages[id].to_username])
C8_StrictStep ==
  \A u \in Usernames : UpdateCalled(u) =>
    IF UserRows(users, u) # {}
      THEN /\ UserRow(users', u).last_login_at # Null
           /\ UserRow(users, u).last_login_at # Null
                => UserRow(users', u).last_login_at[1] > UserRow(users, u).last_login_at[1]
           /\ users' = (users \ {UserRow(users, u)}) \cup
                 {[UserRow(users, u) EXCEPT !.last_login_at = UserRow(users', u).last_login_at]}
      ELSE /\ last'.out = "error"
           /\ last'.err.status = 404
           /\ users' = users
C8_StrictlyGreater == [][C8_StrictStep]_vars

\* C8 amended: updateLoginTimestamp of a registered username stores the
\* clock's reading, which is not null and not less than the value stored
\* before (equal when the clock has not advanced since), and changes nothing
\* else; of an unknown username it fails with 404 and changes nothing.
C8_ClockStep ==
  \A u \in Usernames : UpdateCalled(u) =>
    IF UserRows(users, u) # {}
      THEN /\ UserRow(users', u).last_login_at = Ts(now)
           /\ UserRow(users, u).last_login_at # Null
                => UserRow(users', u).last_login_at[1] >= UserRow(users, u).last_login_at[1]
           /\ users' = (users \ {UserRow(users, u)}) \cup
                 {[UserRow(users, u) EXCEPT !.last_login_at = Ts(now)]}
      ELSE /\ last'.out = "error"
           /\ last'.err.status = 404
           /\ users' = users
C8_SetsClockReading == [][C8_ClockStep]_vars
\* C8 witness: updateLoginTimestamp has stamped a user registered earlier.
C8_Witness ==
  /\ last.kind = "User.updateLoginTimestamp"
  /\ last.out = "none"
  /\ \E r \in users : /\ r.username = last.body.username
                      /\ r.last_login_at = Ts(now)
                      /\ r.join_at # Ts(now)
                      /\ \E o \in users : o.username # r.username /\ o.last_login_at # Ts(now)

\* C9: messagesFrom answers with to_user, the recipient's stored profile, and
\* messagesTo with from_user, the sender's stored profile, every field defined.
C9_CounterpartProfile ==
  /\ (last.kind = "User.messagesFrom" /\ last.out = "json")
       => /\ "to_user" \in DOMAIN last.res
          /\ last.res.to_user = DefinedProfile(users, messages[last.res.id].to_username)
  /\ (last.kind = "User.messagesTo" /\ last.out = "json")
       => /\ "from_user" \in DOMAIN last.res
          /\ last.res.from_user = DefinedProfile(users, messages[last.res.id].from_username)

\* C10: a /login or /register request that ends in an error has changed no
\* user.
C10_FailedStep ==
  (Finished /\ last'.kind \in {"login", "register"} /\ last'.out = "error")
    => users' = users
C10_FailedRequestChangesNothing == [][C10_FailedStep]_vars
====
